---- MODULE Spec2Model ----
(***************************************************************************)
(* A model of the artist marketplace application                           *)
(* (src/Proyecto_Final_Mercadito.py): its six tables, the client session   *)
(* and one action per request handler.                                     *)
(*                                                                         *)
(* Conventions.                                                            *)
(*  - A table is a set of rows (records with an id).  SQLite gives an      *)
(*    INTEGER PRIMARY KEY row the id max(id)+1 (1 in an empty table), so   *)
(*    the id of a deleted last row is handed out again.  SQLite does not   *)
(*    enforce the declared foreign keys (PRAGMA foreign_keys is off).      *)
(*  - A string is a sequence of one-character strings.                     *)
(*  - A JSON value of a request body is a record [k, n, s]: k its kind     *)
(*    (absent, null, bool, num, str), n its number in TENTHS (so that 3.5  *)
(*    is 35), s its characters.  A float or integer column holds tenths    *)
(*    too.                                                                 *)
(*  - A handler's exception path (the except clause: rollback, 500) is     *)
(*    the code 500 with the store unchanged.                               *)
(***************************************************************************)
EXTENDS Integers, Sequences, FiniteSets, TLC

VARIABLES users, posts, commissions, reviews, favorites, orders,
          session, resp, inflight

store == <<users, posts, commissions, reviews, favorites, orders>>
vars == <<users, posts, commissions, reviews, favorites, orders,
          session, resp, inflight>>

(***************************************************************************)
(* Strings and JSON values                                                 *)
(***************************************************************************)
Rep(c, n) == [i \in 1..n |-> c]

Min(a, b) == IF a <= b THEN a ELSE b

\* Python's s[:n]
Slice(s, n) == SubSeq(s, 1, Min(Len(s), n))

Absent == [k |-> "absent", n |-> 0, s |-> <<>>]
Null == [k |-> "null", n |-> 0, s |-> <<>>]
JBool(b) == [k |-> "bool", n |-> IF b THEN 1 ELSE 0, s |-> <<>>]
\* the JSON number i.f (f one decimal digit)
JDec(i, f) == [k |-> "num", n |-> i * 10 + f, s |-> <<>>]
JNum(i) == JDec(i, 0)
JStr(str) == [k |-> "str", n |-> 0, s |-> str]

\* A column value: None, or a number in tenths.
None == [k |-> "null", n |-> 0, s |-> <<>>]
Float(t) == [k |-> "num", n |-> t, s |-> <<>>]

\* data.get(key): an absent key reads as None
Get(v) == IF v.k = "absent" THEN Null ELSE v

\* Python truthiness of a JSON value (None when absent)
Truthy(v) ==
    CASE v.k = "bool" -> v.n = 1
      [] v.k = "num" -> v.n # 0
      [] v.k = "str" -> Len(v.s) > 0
      [] OTHER -> FALSE

Digits == {"0", "1", "2", "3", "4", "5", "6", "7", "8", "9"}

DigitVal(c) ==
    CASE c = "0" -> 0 [] c = "1" -> 1 [] c = "2" -> 2 [] c = "3" -> 3
      [] c = "4" -> 4 [] c = "5" -> 5 [] c = "6" -> 6 [] c = "7" -> 7
      [] c = "8" -> 8 [] c = "9" -> 9

RECURSIVE DecimalValue(_)
DecimalValue(s) ==
    IF Len(s) = 0 THEN 0
    ELSE DecimalValue(SubSeq(s, 1, Len(s) - 1)) * 10 + DigitVal(s[Len(s)])

\* The integer a string of the modelled alphabet (digits, "-", the letters
\* of the inputs) denotes for Python's int() and float(): an optional sign
\* and one or more digits; anything else raises ValueError.
IsIntegerLiteral(s) ==
    LET body == IF Len(s) > 0 /\ s[1] = "-" THEN Tail(s) ELSE s
    IN  Len(body) > 0 /\ \A i \in 1..Len(body) : body[i] \in Digits

IntegerLiteral(s) ==
    IF s[1] = "-" THEN 0 - DecimalValue(Tail(s)) ELSE DecimalValue(s)

\* float(v): [ok, n] with n in tenths; ok = FALSE is TypeError/ValueError
float(v) ==
    CASE v.k = "num" -> [ok |-> TRUE, n |-> v.n]
      [] v.k = "bool" -> [ok |-> TRUE, n |-> v.n * 10]
      [] v.k = "str" /\ IsIntegerLiteral(v.s) ->
            [ok |-> TRUE, n |-> IntegerLiteral(v.s) * 10]
      [] OTHER -> [ok |-> FALSE, n |-> 0]

\* truncation towards zero of a number in tenths
Trunc(t) == IF t >= 0 THEN t \div 10 ELSE 0 - ((0 - t) \div 10)

\* int(v): [ok, n] with n an integer
int(v) ==
    CASE v.k = "num" -> [ok |-> TRUE, n |-> Trunc(v.n)]
      [] v.k = "bool" -> [ok |-> TRUE, n |-> v.n]
      [] v.k = "str" /\ IsIntegerLiteral(v.s) ->
            [ok |-> TRUE, n |-> IntegerLiteral(v.s)]
      [] OTHER -> [ok |-> FALSE, n |-> 0]

(***************************************************************************)
(* Utilities (lines 93-109)                                                *)
(***************************************************************************)
MAX_PRICE == 999999
MIN_RATING == 1
MAX_RATING == 5

\* validate_price as it would be without the upper limit
validate_price_without_upper_limit(price) ==
    LET p == float(price)
    IN  p.ok /\ 0 < p.n

validate_price(price) ==
    LET p == float(price)
    IN  p.ok /\ 0 < p.n /\ p.n <= MAX_PRICE * 10

validate_rating(rating) ==
    LET r == int(rating)
    IN  r.ok /\ MIN_RATING <= r.n /\ r.n <= MAX_RATING

Lower == {"a", "b", "c", "d", "e", "f", "g", "h", "i", "j", "k", "l", "m",
          "n", "o", "p", "q", "r", "s", "t", "u", "v", "w", "x", "y", "z"}
Upper == {"A", "B", "C", "D", "E", "F", "G", "H", "I", "J", "K", "L", "M",
          "N", "O", "P", "Q", "R", "S", "T", "U", "V", "W", "X", "Y", "Z"}
Letters == Lower \cup Upper
LocalChars == Letters \cup Digits \cup {".", "_", "%", "+", "-"}
DomainChars == Letters \cup Digits \cup {".", "-"}

AllIn(s, lo, hi, S) == \A i \in lo..hi : s[i] \in S

\* ^[a-zA-Z0-9._%+-]+@[a-zA-Z0-9.-]+\.[a-zA-Z]{2,}$ on the whole of s
EmailShape(s) ==
    \E at \in 1..Len(s), dot \in 1..Len(s) :
        /\ s[at] = "@" /\ s[dot] = "."
        /\ 1 < at /\ at + 1 < dot /\ dot + 2 <= Len(s)
        /\ AllIn(s, 1, at - 1, LocalChars)
        /\ AllIn(s, at + 1, dot - 1, DomainChars)
        /\ AllIn(s, dot + 1, Len(s), Letters)

\* re.match: "$" also matches before one trailing newline
validate_email(email) ==
    \/ EmailShape(email)
    \/ /\ Len(email) > 0 /\ email[Len(email)] = "\n"
       /\ EmailShape(SubSeq(email, 1, Len(email) - 1))

(***************************************************************************)
(* The store                                                               *)
(***************************************************************************)
Clients == {"c1", "c2"}
NoUser == 0

MaxOf(S) == CHOOSE m \in S : \A x \in S : x <= m

\* the rowid SQLite gives the next row of table T
NewId(T) == IF T = {} THEN 1 ELSE MaxOf({r.id : r \in T}) + 1

Ids(T) == {r.id : r \in T}
Row(T, id) == CHOOSE r \in T : r.id = id

\* werkzeug's salted one-way hash and its verification (line 4)
generate_password_hash(password) == [hash_of |-> password]
check_password_hash(pwhash, password) == pwhash.hash_of = password

\* User.username and User.email are unique=True (lines 29-30)
UserUniqueOk(T, row) ==
    \A u \in T : u.username # row.username /\ u.email # row.email

\* a response: the handler, the status code, the "error" of the body (for
\* the except clause, which answers str(e), the kind of the exception) and
\* the id the body of a 201 names
Response(op, code, error, id) ==
    [op |-> op, code |-> code, error |-> error, id |-> id]

Reply(op, code, id) == resp' = Response(op, code, "", id)

\* a response that leaves the store and the session as they are: an early
\* return, or the except clause (rollback, 500)
Return(op, code, error) ==
    /\ resp' = Response(op, code, error, 0)
    /\ UNCHANGED <<store, session, inflight>>

Init ==
    /\ users = {} /\ posts = {} /\ commissions = {}
    /\ reviews = {} /\ favorites = {} /\ orders = {}
    /\ session = [c \in Clients |-> NoUser]
    /\ resp = Response("none", 0, "", 0)
    /\ inflight = {}

\* 'user_id' in session
login_required(c) == session[c] # NoUser

\* User.query.get(session['user_id']).  No handler deletes a user and the
\* session is only ever bound to the id of a stored one, so the row exists.
get_current_user(c) == CHOOSE u \in users : u.id = session[c]

IsStr(v) == v.k = "str"

(***************************************************************************)
(* Identity: register, login, logout, edit_profile                         *)
(***************************************************************************)
\* register as it would be without the query for the email
register_without_email_check(c, data) ==
    LET username == Get(data.username)
        email == Get(data.email)
        password == Get(data.password)
        user == [id |-> NewId(users), username |-> username.s,
                 email |-> email.s,
                 password |-> generate_password_hash(password.s),
                 bio |-> None, avatar_url |-> None, is_artist |-> FALSE]
    IN  IF ~Truthy(username) \/ ~Truthy(email) \/ ~Truthy(password)
        THEN Return("register", 400, "Missing required fields")
        ELSE IF ~IsStr(username) THEN Return("register", 500, "TypeError")
        ELSE IF Len(username.s) < 3 \/ Len(username.s) > 80
        THEN Return("register", 400, "Username must be 3-80 characters")
        ELSE IF ~IsStr(email) THEN Return("register", 500, "TypeError")
        ELSE IF ~validate_email(email.s)
        THEN Return("register", 400, "Invalid email format")
        ELSE IF ~IsStr(password) THEN Return("register", 500, "TypeError")
        ELSE IF Len(password.s) < 6
        THEN Return("register", 400, "Password must be at least 6 characters")
        ELSE IF \E u \in users : u.username = username.s
        THEN Return("register", 400, "Username already exists")
        ELSE IF ~UserUniqueOk(users, user)
        THEN Return("register", 500, "IntegrityError")
        ELSE /\ users' = users \cup {user}
             /\ session' = [session EXCEPT ![c] = user.id]
             /\ Reply("register", 201, 0)
             /\ UNCHANGED <<posts, commissions, reviews, favorites, orders,
                            inflight>>

register(c, data) ==
    LET username == Get(data.username)
        email == Get(data.email)
        password == Get(data.password)
        user == [id |-> NewId(users), username |-> username.s,
                 email |-> email.s,
                 password |-> generate_password_hash(password.s),
                 bio |-> None, avatar_url |-> None, is_artist |-> FALSE]
    IN  IF ~Truthy(username) \/ ~Truthy(email) \/ ~Truthy(password)
        THEN Return("register", 400, "Missing required fields")
        ELSE IF ~IsStr(username) THEN Return("register", 500, "TypeError")
        ELSE IF Len(username.s) < 3 \/ Len(username.s) > 80
        THEN Return("register", 400, "Username must be 3-80 characters")
        ELSE IF ~IsStr(email) THEN Return("register", 500, "TypeError")
        ELSE IF ~validate_email(email.s) THEN
             Return("register", 400, "Invalid email format")
        ELSE IF ~IsStr(password) THEN Return("register", 500, "TypeError")
        ELSE IF Len(password.s) < 6 THEN
             Return("register", 400, "Password must be at least 6 characters")
        ELSE IF \E u \in users : u.username = username.s
        THEN Return("register", 400, "Username already exists")
        ELSE IF \E u \in users : u.email = email.s
        THEN Return("register", 400, "Email already registered")
        ELSE IF ~UserUniqueOk(users, user) THEN
             Return("register", 500, "IntegrityError")
        ELSE /\ users' = users \cup {user}
             /\ session' = [session EXCEPT ![c] = user.id]
             /\ Reply("register", 201, 0)
             /\ UNCHANGED <<posts, commissions, reviews, favorites, orders,
                            inflight>>

\* login as it would be if the session were bound to the user found before
\* the password is verified
login_binding_before_password_check(c, data) ==
    LET username == Get(data.username)
        password == Get(data.password)
        found == {u \in users : IsStr(username) /\ u.username = username.s}
    IN  IF ~Truthy(username) \/ ~Truthy(password)
        THEN Return("login", 400, "Missing username or password")
        ELSE IF found = {} THEN Return("login", 401, "Invalid credentials")
        ELSE IF ~IsStr(password) THEN Return("login", 500, "TypeError")
        ELSE LET user == CHOOSE u \in found : TRUE
             IN  /\ session' = [session EXCEPT ![c] = user.id]
                 /\ IF check_password_hash(user.password, password.s)
                    THEN Reply("login", 200, 0)
                    ELSE resp' = Response("login", 401,
                                          "Invalid credentials", 0)
                 /\ UNCHANGED <<store, inflight>>

\* login as it would be without the verification of the password
login_without_password_check(c, data) ==
    LET username == Get(data.username)
        password == Get(data.password)
        found == {u \in users : IsStr(username) /\ u.username = username.s}
    IN  IF ~Truthy(username) \/ ~Truthy(password)
        THEN Return("login", 400, "Missing username or password")
        ELSE IF found = {} THEN Return("login", 401, "Invalid credentials")
        ELSE LET user == CHOOSE u \in found : TRUE
             IN  /\ session' = [session EXCEPT ![c] = user.id]
                 /\ Reply("login", 200, 0)
                 /\ UNCHANGED <<store, inflight>>

login(c, data) ==
    LET username == Get(data.username)
        password == Get(data.password)
        found == {u \in users : IsStr(username) /\ u.username = username.s}
    IN  IF ~Truthy(username) \/ ~Truthy(password)
        THEN Return("login", 400, "Missing username or password")
        ELSE IF found = {} THEN Return("login", 401, "Invalid credentials")
        ELSE IF ~IsStr(password) THEN Return("login", 500, "TypeError")
        ELSE LET user == CHOOSE u \in found : TRUE
             IN  IF check_password_hash(user.password, password.s)
                 THEN /\ session' = [session EXCEPT ![c] = user.id]
                      /\ Reply("login", 200, 0)
                      /\ UNCHANGED <<store, inflight>>
                 ELSE Return("login", 401, "Invalid credentials")

\* logout as it would be without session.clear()
logout_without_clear(c) ==
    /\ Reply("logout", 302, 0)
    /\ UNCHANGED <<store, session, inflight>>

logout(c) ==
    /\ session' = [session EXCEPT ![c] = NoUser]
    /\ Reply("logout", 302, 0)
    /\ UNCHANGED <<store, inflight>>

edit_profile(c, data) ==
    IF ~login_required(c) THEN Return("edit_profile", 401, "Login required")
    ELSE LET user == get_current_user(c)
             hasBio == data.bio.k # "absent"
             hasAvatar == data.avatar_url.k # "absent"
             hasArtist == data.is_artist.k # "absent"
         IN  IF (hasBio /\ ~IsStr(data.bio))
                \/ (hasAvatar /\ ~IsStr(data.avatar_url))
             THEN Return("edit_profile", 500, "TypeError")
             ELSE LET edited ==
                          [user EXCEPT
                             !.bio = IF hasBio
                                     THEN JStr(Slice(data.bio.s, 500))
                                     ELSE @,
                             !.avatar_url =
                                 IF hasAvatar
                                 THEN JStr(Slice(data.avatar_url.s, 500))
                                 ELSE @,
                             !.is_artist = IF hasArtist
                                           THEN Truthy(data.is_artist)
                                           ELSE @]
                  IN  /\ users' = (users \ {user}) \cup {edited}
                      /\ Reply("edit_profile", 200, 0)
                      /\ UNCHANGED <<posts, commissions, reviews, favorites,
                                     orders, session, inflight>>

(***************************************************************************)
(* Catalog: create_post, delete_post, update_post                          *)
(***************************************************************************)
create_post(c, data) ==
    IF ~login_required(c) THEN Return("create_post", 401, "Login required")
    ELSE
    LET user == get_current_user(c)
        title == Get(data.title)
        image_url == Get(data.image_url)
        price == Get(data.price)
        \* data.get('description', '')
        description == IF data.description.k = "absent" THEN JStr(<<>>)
                       ELSE data.description
    IN  IF ~Truthy(title) \/ ~Truthy(image_url)
        THEN Return("create_post", 400, "Title and image required")
        ELSE IF ~IsStr(title) THEN Return("create_post", 500, "TypeError")
        ELSE IF Len(title.s) > 200 THEN
             Return("create_post", 400, "Title too long")
        ELSE IF Truthy(price) /\ ~validate_price(price)
        THEN Return("create_post", 400, "Invalid price")
        ELSE IF ~IsStr(description) \/ ~IsStr(image_url)
        THEN Return("create_post", 500, "TypeError")
        ELSE LET post == [id |-> NewId(posts),
                          title |-> title.s,
                          description |-> Slice(description.s, 1000),
                          image_url |-> Slice(image_url.s, 500),
                          price |-> IF Truthy(price)
                                    THEN Float(float(price).n) ELSE None,
                          is_for_sale |-> Truthy(Get(data.is_for_sale)),
                          user_id |-> user.id]
             IN  /\ posts' = posts \cup {post}
                 /\ Reply("create_post", 201, post.id)
                 /\ UNCHANGED <<users, commissions, reviews, favorites,
                                orders, session, inflight>>

\* delete_post as it would be without @login_required: a request with no
\* session deletes the post
delete_post_without_login_required(c, post_id) ==
    IF post_id \notin Ids(posts)
    THEN Return("delete_post", 500, "404 Not Found")
    ELSE LET post == Row(posts, post_id)
         IN  IF login_required(c) /\ post.user_id # get_current_user(c).id
             THEN Return("delete_post", 403, "Unauthorized")
             ELSE /\ posts' = posts \ {post}
                  /\ Reply("delete_post", 200, 0)
                  /\ UNCHANGED <<users, commissions, reviews, favorites,
                                 orders, session, inflight>>

\* Post.query.get_or_404 aborts with werkzeug's NotFound, an Exception raised
\* inside the handler's try: the except clause answers it with 500.
delete_post(c, post_id) ==
    IF ~login_required(c) THEN Return("delete_post", 401, "Login required")
    ELSE IF post_id \notin Ids(posts) THEN
         Return("delete_post", 500, "404 Not Found")
    ELSE LET user == get_current_user(c)
             post == Row(posts, post_id)
         IN  IF post.user_id # user.id THEN
              Return("delete_post", 403, "Unauthorized")
             ELSE /\ posts' = posts \ {post}
                  /\ Reply("delete_post", 200, 0)
                  /\ UNCHANGED <<users, commissions, reviews, favorites,
                                 orders, session, inflight>>

\* update_post as it would be if a new price of the post were written to the
\* orders of the post too
update_post_repricing_orders(c, post_id, data) ==
    IF ~login_required(c)
    THEN Return("update_post", 401, "Login required")
    ELSE IF post_id \notin Ids(posts)
    THEN Return("update_post", 500, "404 Not Found")
    ELSE
    LET user == get_current_user(c)
        post == Row(posts, post_id)
        hasTitle == data.title.k # "absent"
        hasDescription == data.description.k # "absent"
        hasPrice == data.price.k # "absent"
        hasForSale == data.is_for_sale.k # "absent"
    IN  IF post.user_id # user.id
        THEN Return("update_post", 403, "Unauthorized")
        ELSE IF hasTitle /\ ~IsStr(data.title)
        THEN Return("update_post", 500, "TypeError")
        ELSE IF hasDescription /\ ~IsStr(data.description)
        THEN Return("update_post", 500, "TypeError")
        ELSE IF hasPrice /\ ~validate_price(data.price)
        THEN Return("update_post", 400, "Invalid price")
        ELSE LET edited ==
                     [post EXCEPT
                        !.title = IF hasTitle THEN Slice(data.title.s, 200)
                                  ELSE @,
                        !.description =
                            IF hasDescription
                            THEN Slice(data.description.s, 1000) ELSE @,
                        !.price = IF hasPrice
                                  THEN IF Truthy(data.price)
                                       THEN Float(float(data.price).n)
                                       ELSE None
                                  ELSE @,
                        !.is_for_sale = IF hasForSale
                                        THEN Truthy(data.is_for_sale)
                                        ELSE @]
             IN  /\ posts' = (posts \ {post}) \cup {edited}
                 /\ orders' = {IF o.post_id = post_id
                               THEN [o EXCEPT !.price = edited.price]
                               ELSE o : o \in orders}
                 /\ Reply("update_post", 200, 0)
                 /\ UNCHANGED <<users, commissions, reviews, favorites,
                                session, inflight>>

\* update_post as it would be without the comparison of the owner
update_post_without_owner_check(c, post_id, data) ==
    IF ~login_required(c)
    THEN Return("update_post", 401, "Login required")
    ELSE IF post_id \notin Ids(posts)
    THEN Return("update_post", 500, "404 Not Found")
    ELSE
    LET post == Row(posts, post_id)
        hasTitle == data.title.k # "absent"
        hasDescription == data.description.k # "absent"
        hasPrice == data.price.k # "absent"
        hasForSale == data.is_for_sale.k # "absent"
    IN  IF hasTitle /\ ~IsStr(data.title)
        THEN Return("update_post", 500, "TypeError")
        ELSE IF hasDescription /\ ~IsStr(data.description)
        THEN Return("update_post", 500, "TypeError")
        ELSE IF hasPrice /\ ~validate_price(data.price)
        THEN Return("update_post", 400, "Invalid price")
        ELSE LET edited ==
                     [post EXCEPT
                        !.title = IF hasTitle THEN Slice(data.title.s, 200)
                                  ELSE @,
                        !.description =
                            IF hasDescription
                            THEN Slice(data.description.s, 1000) ELSE @,
                        !.price = IF hasPrice
                                  THEN IF Truthy(data.price)
                                       THEN Float(float(data.price).n)
                                       ELSE None
                                  ELSE @,
                        !.is_for_sale = IF hasForSale
                                        THEN Truthy(data.is_for_sale)
                                        ELSE @]
             IN  /\ posts' = (posts \ {post}) \cup {edited}
                 /\ Reply("update_post", 200, 0)
                 /\ UNCHANGED <<users, commissions, reviews, favorites,
                                orders, session, inflight>>

\* update_post as it would be if the title and the description assigned
\* before an "Invalid price" return were committed
update_post_committing_before_price_check(c, post_id, data) ==
    IF ~login_required(c)
    THEN Return("update_post", 401, "Login required")
    ELSE IF post_id \notin Ids(posts)
    THEN Return("update_post", 500, "404 Not Found")
    ELSE
    LET user == get_current_user(c)
        post == Row(posts, post_id)
        hasTitle == data.title.k # "absent"
        hasDescription == data.description.k # "absent"
        hasPrice == data.price.k # "absent"
        hasForSale == data.is_for_sale.k # "absent"
        assigned ==
            [post EXCEPT
               !.title = IF hasTitle THEN Slice(data.title.s, 200) ELSE @,
               !.description = IF hasDescription
                               THEN Slice(data.description.s, 1000) ELSE @]
    IN  IF post.user_id # user.id
        THEN Return("update_post", 403, "Unauthorized")
        ELSE IF hasTitle /\ ~IsStr(data.title)
        THEN Return("update_post", 500, "TypeError")
        ELSE IF hasDescription /\ ~IsStr(data.description)
        THEN Return("update_post", 500, "TypeError")
        ELSE IF hasPrice /\ ~validate_price(data.price)
        THEN /\ posts' = (posts \ {post}) \cup {assigned}
             /\ resp' = Response("update_post", 400, "Invalid price", 0)
             /\ UNCHANGED <<users, commissions, reviews, favorites, orders,
                            session, inflight>>
        ELSE LET edited ==
                     [assigned EXCEPT
                        !.price = IF hasPrice
                                  THEN IF Truthy(data.price)
                                       THEN Float(float(data.price).n)
                                       ELSE None
                                  ELSE @,
                        !.is_for_sale = IF hasForSale
                                        THEN Truthy(data.is_for_sale)
                                        ELSE @]
             IN  /\ posts' = (posts \ {post}) \cup {edited}
                 /\ Reply("update_post", 200, 0)
                 /\ UNCHANGED <<users, commissions, reviews, favorites,
                                orders, session, inflight>>

\* The assignments to post.title and post.description made before an
\* "Invalid price" return are never committed: the request's session is
\* removed (rolled back) when the request ends.
update_post(c, post_id, data) ==
    IF ~login_required(c) THEN Return("update_post", 401, "Login required")
    ELSE IF post_id \notin Ids(posts) THEN
         Return("update_post", 500, "404 Not Found")
    ELSE
    LET user == get_current_user(c)
        post == Row(posts, post_id)
        hasTitle == data.title.k # "absent"
        hasDescription == data.description.k # "absent"
        hasPrice == data.price.k # "absent"
        hasForSale == data.is_for_sale.k # "absent"
    IN  IF post.user_id # user.id THEN
         Return("update_post", 403, "Unauthorized")
        ELSE IF hasTitle /\ ~IsStr(data.title)
        THEN Return("update_post", 500, "TypeError")
        ELSE IF hasDescription /\ ~IsStr(data.description)
        THEN Return("update_post", 500, "TypeError")
        ELSE IF hasPrice /\ ~validate_price(data.price)
        THEN Return("update_post", 400, "Invalid price")
        ELSE LET edited ==
                     [post EXCEPT
                        !.title = IF hasTitle THEN Slice(data.title.s, 200)
                                  ELSE @,
                        !.description =
                            IF hasDescription
                            THEN Slice(data.description.s, 1000) ELSE @,
                        !.price = IF hasPrice
                                  THEN IF Truthy(data.price)
                                       THEN Float(float(data.price).n)
                                       ELSE None
                                  ELSE @,
                        !.is_for_sale = IF hasForSale
                                        THEN Truthy(data.is_for_sale)
                                        ELSE @]
             IN  /\ posts' = (posts \ {post}) \cup {edited}
                 /\ Reply("update_post", 200, 0)
                 /\ UNCHANGED <<users, commissions, reviews, favorites,
                                orders, session, inflight>>

(***************************************************************************)
(* Social: add_favorite, remove_favorite, create_review                    *)
(***************************************************************************)
\* Favorite declares no unique constraint (lines 64-68): every insert of a
\* row is accepted.
InsertFavorite(T, user_id, post_id) ==
    T \cup {[id |-> NewId(T), user_id |-> user_id, post_id |-> post_id]}

FavoritesOf(user_id, post_id) ==
    {f \in favorites : f.user_id = user_id /\ f.post_id = post_id}

\* add_favorite as it would be without the query for an existing favorite
add_favorite_without_existing_check(c, post_id) ==
    IF ~login_required(c)
    THEN Return("add_favorite", 401, "Login required")
    ELSE IF post_id \notin Ids(posts)
    THEN Return("add_favorite", 500, "404 Not Found")
    ELSE LET user == get_current_user(c)
         IN  /\ favorites' = InsertFavorite(favorites, user.id, post_id)
             /\ Reply("add_favorite", 201, 0)
             /\ UNCHANGED <<users, posts, commissions, reviews, orders,
                            session, inflight>>

add_favorite(c, post_id) ==
    IF ~login_required(c) THEN Return("add_favorite", 401, "Login required")
    ELSE IF post_id \notin Ids(posts) THEN
         Return("add_favorite", 500, "404 Not Found")
    ELSE LET user == get_current_user(c)
         IN  IF FavoritesOf(user.id, post_id) # {}
             THEN Return("add_favorite", 400, "Already favorited")
             ELSE /\ favorites' = InsertFavorite(favorites, user.id, post_id)
                  /\ Reply("add_favorite", 201, 0)
                  /\ UNCHANGED <<users, posts, commissions, reviews, orders,
                                 session, inflight>>

\* .first() is the matching row SQLite returns first: the one of lowest rowid
remove_favorite(c, post_id) ==
    IF ~login_required(c) THEN Return("remove_favorite", 401, "Login required")
    ELSE LET user == get_current_user(c)
             found == FavoritesOf(user.id, post_id)
         IN  IF found = {} THEN Return("remove_favorite", 500, "404 Not Found")
             ELSE \E fav \in found :
                      /\ favorites' = favorites \ {fav}
                      /\ Reply("remove_favorite", 200, 0)
                      /\ UNCHANGED <<users, posts, commissions, reviews,
                                     orders, session, inflight>>

\* create_review as it would be if a user could review a post only once
create_review_once_per_post(c, post_id, data) ==
    IF ~login_required(c) THEN Return("create_review", 401, "Login required")
    ELSE
    LET user == get_current_user(c)
        comment == IF data.comment.k = "absent" THEN JStr(<<>>)
                   ELSE data.comment
    IN  IF ~validate_rating(Get(data.rating))
        THEN Return("create_review", 400, "Rating must be 1-5")
        ELSE IF \E r \in reviews : r.user_id = user.id /\ r.post_id = post_id
        THEN Return("create_review", 400, "Already reviewed")
        ELSE IF ~IsStr(comment) THEN Return("create_review", 500, "TypeError")
        ELSE LET review == [id |-> NewId(reviews),
                            rating |-> int(data.rating).n,
                            comment |-> Slice(comment.s, 500),
                            user_id |-> user.id,
                            post_id |-> post_id]
             IN  /\ reviews' = reviews \cup {review}
                 /\ Reply("create_review", 201, 0)
                 /\ UNCHANGED <<users, posts, commissions, favorites, orders,
                                session, inflight>>

create_review(c, post_id, data) ==
    IF ~login_required(c) THEN Return("create_review", 401, "Login required")
    ELSE
    LET user == get_current_user(c)
        comment == IF data.comment.k = "absent" THEN JStr(<<>>)
                   ELSE data.comment
    IN  IF ~validate_rating(Get(data.rating))
        THEN Return("create_review", 400, "Rating must be 1-5")
        ELSE IF ~IsStr(comment) THEN Return("create_review", 500, "TypeError")
        ELSE LET review == [id |-> NewId(reviews),
                            rating |-> int(data.rating).n,
                            comment |-> Slice(comment.s, 500),
                            user_id |-> user.id,
                            post_id |-> post_id]
             IN  /\ reviews' = reviews \cup {review}
                 /\ Reply("create_review", 201, 0)
                 /\ UNCHANGED <<users, posts, commissions, favorites, orders,
                                session, inflight>>

(***************************************************************************)
(* Orders and commissions                                                  *)
(***************************************************************************)
\* Order.price is nullable=False (line 74): the insert of a row without a
\* price raises IntegrityError.
create_order(c, post_id) ==
    IF ~login_required(c) THEN Return("create_order", 401, "Login required")
    ELSE IF post_id \notin Ids(posts) THEN
         Return("create_order", 500, "404 Not Found")
    ELSE LET user == get_current_user(c)
             post == Row(posts, post_id)
             order == [id |-> NewId(orders), buyer_id |-> user.id,
                       post_id |-> post_id, price |-> post.price,
                       status |-> "pending"]
         IN  IF ~post.is_for_sale THEN
              Return("create_order", 400, "Post not for sale")
             ELSE IF post.user_id = user.id THEN
                  Return("create_order", 400, "Cannot buy own post")
             ELSE IF order.price = None THEN
                  Return("create_order", 500, "IntegrityError")
             ELSE /\ orders' = orders \cup {order}
                  /\ Reply("create_order", 201, order.id)
                  /\ UNCHANGED <<users, posts, commissions, reviews,
                                 favorites, session, inflight>>

\* create_commission as it would be without the test of user.is_artist
create_commission_without_artist_check(c, data) ==
    IF ~login_required(c) THEN
         Return("create_commission", 401, "Login required")
    ELSE
    LET user == get_current_user(c)
        title == Get(data.title)
        description == IF data.description.k = "absent" THEN JStr(<<>>)
                       ELSE data.description
    IN  IF ~Truthy(title) \/ ~validate_price(Get(data.price))
        THEN Return("create_commission", 400, "Title and valid price required")
        ELSE IF ~IsStr(title) \/ ~IsStr(description)
        THEN Return("create_commission", 500, "TypeError")
        ELSE LET commission == [id |-> NewId(commissions),
                                title |-> Slice(title.s, 200),
                                description |-> Slice(description.s, 1000),
                                price |-> float(data.price).n,
                                artist_id |-> user.id]
             IN  /\ commissions' = commissions \cup {commission}
                 /\ Reply("create_commission", 201, commission.id)
                 /\ UNCHANGED <<users, posts, reviews, favorites, orders,
                                session, inflight>>

create_commission(c, data) ==
    IF ~login_required(c) THEN
         Return("create_commission", 401, "Login required")
    ELSE
    LET user == get_current_user(c)
        title == Get(data.title)
        description == IF data.description.k = "absent" THEN JStr(<<>>)
                       ELSE data.description
    IN  IF ~user.is_artist THEN
         Return("create_commission", 403, "Only artists can create commissions")
        ELSE IF ~Truthy(title) \/ ~validate_price(Get(data.price))
        THEN Return("create_commission", 400, "Title and valid price required")
        ELSE IF ~IsStr(title) \/ ~IsStr(description)
        THEN Return("create_commission", 500, "TypeError")
        ELSE LET commission == [id |-> NewId(commissions),
                                title |-> Slice(title.s, 200),
                                description |-> Slice(description.s, 1000),
                                price |-> float(data.price).n,
                                artist_id |-> user.id]
             IN  /\ commissions' = commissions \cup {commission}
                 /\ Reply("create_commission", 201, commission.id)
                 /\ UNCHANGED <<users, posts, reviews, favorites, orders,
                                session, inflight>>

delete_commission(c, commission_id) ==
    IF ~login_required(c) THEN
         Return("delete_commission", 401, "Login required")
    ELSE IF commission_id \notin Ids(commissions)
    THEN Return("delete_commission", 500, "404 Not Found")
    ELSE LET user == get_current_user(c)
             commission == Row(commissions, commission_id)
         IN  IF commission.artist_id # user.id
             THEN Return("delete_commission", 403, "Unauthorized")
             ELSE /\ commissions' = commissions \ {commission}
                  /\ Reply("delete_commission", 200, 0)
                  /\ UNCHANGED <<users, posts, reviews, favorites, orders,
                                 session, inflight>>

(***************************************************************************)
(* seed_data (lines 412-478)                                               *)
(***************************************************************************)

DEMO_USERNAME ==
    <<"d", "e", "m", "o", "_", "a", "r", "t", "i", "s", "t">>

DEMO_EMAIL ==
    <<"d", "e", "m", "o", "@", "e", "x", "a", "m", "p", "l", "e", ".", "c",
      "o", "m">>

DEMO_PASSWORD ==
    <<"p", "a", "s", "s", "w", "o", "r", "d", "1", "2", "3">>

DEMO_BIO ==
    <<"D", "e", "m", "o", " ", "a", "r", "t", "i", "s", "t", " ", "s", "h",
      "o", "w", "c", "a", "s", "i", "n", "g", " ", "t", "h", "e", " ", "m",
      "a", "r", "k", "e", "t", "p", "l", "a", "c", "e">>

SEED_IMAGE_A ==
    <<"h", "t", "t", "p", "s", ":", "/", "/", "i", "m", "a", "g", "e", "s",
      ".", "u", "n", "s", "p", "l", "a", "s", "h", ".", "c", "o", "m", "/",
      "p", "h", "o", "t", "o", "-", "1", "5", "6", "1", "2", "1", "4", "1",
      "1", "5", "-", "6", "d", "2", "f", "1", "b", "0", "6", "0", "9", "f",
      "a", "?", "w", "=", "4", "0", "0", "&", "h", "=", "3", "0", "0", "&",
      "f", "i", "t", "=", "c", "r", "o", "p">>

SEED_IMAGE_B ==
    <<"h", "t", "t", "p", "s", ":", "/", "/", "i", "m", "a", "g", "e", "s",
      ".", "u", "n", "s", "p", "l", "a", "s", "h", ".", "c", "o", "m", "/",
      "p", "h", "o", "t", "o", "-", "1", "5", "6", "1", "0", "7", "0", "7",
      "9", "1", "-", "2", "5", "2", "6", "d", "3", "0", "9", "9", "4", "b",
      "5", "?", "w", "=", "4", "0", "0", "&", "h", "=", "3", "0", "0", "&",
      "f", "i", "t", "=", "c", "r", "o", "p">>

SEED_TITLE_1 ==
    <<"A", "b", "s", "t", "r", "a", "c", "t", " ", "W", "a", "t", "e", "r",
      "c", "o", "l", "o", "r", " ", "S", "e", "r", "i", "e", "s">>

SEED_DESCRIPTION_1 ==
    <<"B", "e", "a", "u", "t", "i", "f", "u", "l", " ", "a", "b", "s", "t",
      "r", "a", "c", "t", " ", "w", "a", "t", "e", "r", "c", "o", "l", "o",
      "r", " ", "p", "a", "i", "n", "t", "i", "n", "g", " ", "w", "i", "t",
      "h", " ", "f", "l", "o", "w", "i", "n", "g", " ", "c", "o", "l", "o",
      "r", "s", " ", "a", "n", "d", " ", "o", "r", "g", "a", "n", "i", "c",
      " ", "s", "h", "a", "p", "e", "s", ".">>

SEED_TITLE_2 ==
    <<"D", "i", "g", "i", "t", "a", "l", " ", "P", "o", "r", "t", "r", "a",
      "i", "t", " ", "C", "o", "m", "m", "i", "s", "s", "i", "o", "n">>

SEED_DESCRIPTION_2 ==
    <<"C", "u", "s", "t", "o", "m", " ", "d", "i", "g", "i", "t", "a", "l",
      " ", "p", "o", "r", "t", "r", "a", "i", "t", " ", "o", "f", " ", "y",
      "o", "u", "r", " ", "f", "a", "v", "o", "r", "i", "t", "e", " ", "c",
      "h", "a", "r", "a", "c", "t", "e", "r", "s", " ", "o", "r", " ", "p",
      "e", "o", "p", "l", "e", ".">>

SEED_TITLE_3 ==
    <<"L", "a", "n", "d", "s", "c", "a", "p", "e", " ", "O", "i", "l", " ",
      "P", "a", "i", "n", "t", "i", "n", "g">>

SEED_DESCRIPTION_3 ==
    <<"S", "e", "r", "e", "n", "e", " ", "m", "o", "u", "n", "t", "a", "i",
      "n", " ", "l", "a", "n", "d", "s", "c", "a", "p", "e", " ", "c", "a",
      "p", "t", "u", "r", "e", "d", " ", "i", "n", " ", "o", "i", "l", "s",
      ".", " ", "A", "v", "a", "i", "l", "a", "b", "l", "e", " ", "f", "o",
      "r", " ", "c", "o", "m", "m", "i", "s", "s", "i", "o", "n", "i", "n",
      "g", ".">>

SEED_TITLE_4 ==
    <<"G", "r", "a", "p", "h", "i", "c", " ", "D", "e", "s", "i", "g", "n",
      " ", "P", "o", "r", "t", "f", "o", "l", "i", "o">>

SEED_DESCRIPTION_4 ==
    <<"C", "o", "l", "l", "e", "c", "t", "i", "o", "n", " ", "o", "f", " ",
      "m", "o", "d", "e", "r", "n", " ", "g", "r", "a", "p", "h", "i", "c",
      " ", "d", "e", "s", "i", "g", "n", " ", "w", "o", "r", "k", " ", "-",
      " ", "l", "o", "g", "o", "s", ",", " ", "b", "r", "a", "n", "d", "i",
      "n", "g", ",", " ", "a", "n", "d", " ", "l", "a", "y", "o", "u", "t",
      "s", ".">>

SEED_TITLE_5 ==
    <<"C", "h", "a", "r", "a", "c", "t", "e", "r", " ", "I", "l", "l", "u",
      "s", "t", "r", "a", "t", "i", "o", "n">>

SEED_DESCRIPTION_5 ==
    <<"O", "r", "i", "g", "i", "n", "a", "l", " ", "c", "h", "a", "r", "a",
      "c", "t", "e", "r", " ", "d", "e", "s", "i", "g", "n", " ", "w", "i",
      "t", "h", " ", "d", "e", "t", "a", "i", "l", "e", "d", " ", "c", "o",
      "s", "t", "u", "m", "e", " ", "a", "n", "d", " ", "e", "x", "p", "r",
      "e", "s", "s", "i", "o", "n", ".">>

\* the five sample posts, added to an empty post table: rowids 1 to 5
sample_posts(user_id) ==
    {[id |-> 1, title |-> SEED_TITLE_1, description |-> SEED_DESCRIPTION_1,
      image_url |-> SEED_IMAGE_A, price |-> Float(1500),
      is_for_sale |-> TRUE, user_id |-> user_id],
     [id |-> 2, title |-> SEED_TITLE_2, description |-> SEED_DESCRIPTION_2,
      image_url |-> SEED_IMAGE_B, price |-> Float(750),
      is_for_sale |-> TRUE, user_id |-> user_id],
     [id |-> 3, title |-> SEED_TITLE_3, description |-> SEED_DESCRIPTION_3,
      image_url |-> SEED_IMAGE_A, price |-> Float(2500),
      is_for_sale |-> TRUE, user_id |-> user_id],
     [id |-> 4, title |-> SEED_TITLE_4, description |-> SEED_DESCRIPTION_4,
      image_url |-> SEED_IMAGE_B, price |-> None,
      is_for_sale |-> FALSE, user_id |-> user_id],
     [id |-> 5, title |-> SEED_TITLE_5, description |-> SEED_DESCRIPTION_5,
      image_url |-> SEED_IMAGE_A, price |-> Float(1200),
      is_for_sale |-> TRUE, user_id |-> user_id]}

seed_data ==
    LET existing == {u \in users : u.username = DEMO_USERNAME}
        demo_user ==
            IF existing # {} THEN CHOOSE u \in existing : TRUE
            ELSE [id |-> NewId(users), username |-> DEMO_USERNAME,
                  email |-> DEMO_EMAIL,
                  password |-> generate_password_hash(DEMO_PASSWORD),
                  bio |-> JStr(DEMO_BIO), avatar_url |-> None,
                  is_artist |-> TRUE]
    IN  IF existing = {} /\ ~UserUniqueOk(users, demo_user)
        THEN Return("seed_data", 500, "IntegrityError")
        ELSE /\ users' = users \cup {demo_user}
             /\ posts' = IF posts = {} THEN sample_posts(demo_user.id)
                         ELSE posts
             /\ Reply("seed_data", 200, 0)
             /\ UNCHANGED <<commissions, reviews, favorites, orders, session,
                            inflight>>

(***************************************************************************)
(* Request inputs                                                          *)
(***************************************************************************)
ALICE == <<"a", "l", "i", "c", "e">>
BOB == <<"b", "o", "b">>
EMAIL_A == <<"a", "@", "x", ".", "c", "o">>
EMAIL_B == <<"b", "@", "x", ".", "c", "o">>
SECRET == <<"s", "e", "c", "r", "e", "t">>
WRONG == <<"w", "r", "o", "n", "g", "1">>
TITLE_1 == <<"S", "k", "y">>
TITLE_2 == <<"S", "e", "a">>
IMAGE_1 == <<"h", "t", "t", "p", ":", "/", "/", "x", "/", "1">>

RegisterData(u, e, p) == [username |-> u, email |-> e, password |-> p]
LoginData(u, p) == [username |-> u, password |-> p]
ProfileData(b, a, i) == [bio |-> b, avatar_url |-> a, is_artist |-> i]
PostData(t, d, i, p, f) ==
    [title |-> t, description |-> d, image_url |-> i, price |-> p,
     is_for_sale |-> f]
PatchData(t, d, p, f) ==
    [title |-> t, description |-> d, price |-> p, is_for_sale |-> f]
ReviewData(r, cm) == [rating |-> r, comment |-> cm]
CommissionData(t, d, p) == [title |-> t, description |-> d, price |-> p]

RegisterInputs ==
    {RegisterData(JStr(ALICE), JStr(EMAIL_A), JStr(SECRET)),
     RegisterData(JStr(BOB), JStr(EMAIL_B), JStr(SECRET)),
     RegisterData(JStr(BOB), JStr(EMAIL_A), JStr(SECRET)),
     RegisterData(JStr(ALICE), JStr(EMAIL_B), JStr(WRONG)),
     RegisterData(Absent, JStr(EMAIL_A), JStr(SECRET)),
     RegisterData(JStr(<<"a", "l">>), JStr(EMAIL_A), JStr(SECRET)),
     RegisterData(JStr(Rep("x", 81)), JStr(EMAIL_A), JStr(SECRET)),
     RegisterData(JStr(ALICE), JStr(<<"a", "@", "x", ".", "c">>),
                  JStr(SECRET)),
     RegisterData(JStr(ALICE), JStr(EMAIL_A), JStr(<<"s", "e", "c">>)),
     RegisterData(JStr(ALICE), JStr(EMAIL_A), JNum(123456))}

LoginInputs ==
    {LoginData(JStr(ALICE), JStr(SECRET)),
     LoginData(JStr(BOB), JStr(SECRET)),
     LoginData(JStr(ALICE), JStr(WRONG)),
     LoginData(JStr(BOB), JStr(WRONG)),
     LoginData(JStr(ALICE), Absent),
     LoginData(Null, JStr(SECRET))}

ProfileInputs ==
    {ProfileData(Absent, Absent, JBool(TRUE)),
     ProfileData(Absent, Absent, JBool(FALSE)),
     ProfileData(JStr(Rep("b", 501)), JStr(Rep("a", 3)), Absent),
     ProfileData(Null, Absent, JBool(TRUE))}

PostInputs ==
    {PostData(JStr(TITLE_1), Absent, JStr(IMAGE_1), JNum(50), JBool(TRUE)),
     PostData(JStr(TITLE_1), Absent, JStr(IMAGE_1), Absent, JBool(TRUE)),
     PostData(JStr(TITLE_1), JStr(Rep("d", 1001)), JStr(IMAGE_1), Absent,
              Absent),
     PostData(JStr(TITLE_1), Absent, JStr(IMAGE_1), JNum(0), JBool(TRUE)),
     PostData(Absent, Absent, JStr(IMAGE_1), JNum(50), JBool(TRUE)),
     PostData(JStr(Rep("t", 201)), Absent, JStr(IMAGE_1), Absent, Absent),
     PostData(JStr(TITLE_1), Absent, JStr(IMAGE_1), JNum(0 - 5), Absent),
     PostData(JStr(TITLE_1), Null, JStr(IMAGE_1), Absent, Absent)}

PatchInputs ==
    {PatchData(JStr(TITLE_2), Absent, Absent, Absent),
     PatchData(Absent, Absent, JNum(75), Absent),
     PatchData(Absent, Absent, Absent, JBool(FALSE)),
     PatchData(Absent, Absent, Absent, JBool(TRUE)),
     PatchData(JStr(TITLE_2), JStr(<<"d">>), JStr(<<"a", "b", "c">>), Absent),
     PatchData(JStr(TITLE_2), Absent, JNum(0), Absent),
     PatchData(JStr(TITLE_2), Absent, JNum(1000000), JBool(FALSE)),
     PatchData(Absent, JStr(<<"d">>), Null, Absent)}

ReviewInputs ==
    {ReviewData(JNum(5), Absent),
     ReviewData(JDec(3, 5), Absent),
     ReviewData(JNum(0), Absent),
     ReviewData(JNum(6), Absent),
     ReviewData(JStr(<<"a", "b", "c">>), Absent),
     ReviewData(Absent, Absent),
     ReviewData(JNum(5), Null)}

CommissionInputs ==
    {CommissionData(JStr(TITLE_1), Absent, JNum(100)),
     CommissionData(Absent, Absent, JNum(100)),
     CommissionData(JStr(TITLE_1), Absent, JNum(0)),
     CommissionData(JStr(TITLE_1), Absent, Absent)}

\* the highest rowid a table of posts, commissions, orders or reviews
\* reaches, and the highest a favorite reaches: a request that would add a
\* row beyond it is not taken.  A request names any of these ids, or the
\* one after them, which no row has.
MaxId == 1
MaxFavoriteId == 2
RequestIds == 1..(MaxId + 1)
Fits(T) == NewId(T) <= MaxId

\* the rows the store may hold when a request that adds a row is taken
MaxRows == 2
Rows ==
    Cardinality(users) + Cardinality(posts) + Cardinality(commissions)
    + Cardinality(reviews) + Cardinality(favorites) + Cardinality(orders)
Room == Rows < MaxRows

\* one browser issues the requests that are taken one at a time
Browser == {"c1"}

ALICE_DATA == RegisterData(JStr(ALICE), JStr(EMAIL_A), JStr(SECRET))
BOB_DATA == RegisterData(JStr(BOB), JStr(EMAIL_B), JStr(SECRET))
SomeRegisterInputs ==
    {ALICE_DATA, BOB_DATA, RegisterData(Absent, JStr(EMAIL_A), JStr(SECRET))}
SomeLoginInputs ==
    {LoginData(JStr(ALICE), JStr(SECRET)), LoginData(JStr(BOB), JStr(SECRET)),
     LoginData(JStr(ALICE), JStr(WRONG))}
SomeProfileInputs ==
    {ProfileData(Absent, Absent, JBool(TRUE)),
     ProfileData(Absent, Absent, JBool(FALSE))}
PRICED_POST ==
    PostData(JStr(TITLE_1), Absent, JStr(IMAGE_1), JNum(50), JBool(TRUE))
UNPRICED_POST ==
    PostData(JStr(TITLE_1), Absent, JStr(IMAGE_1), Absent, JBool(TRUE))
SomePostInputs ==
    {PRICED_POST, UNPRICED_POST,
     PostData(Absent, Absent, JStr(IMAGE_1), JNum(50), JBool(TRUE))}
SomePatchInputs ==
    {PatchData(JStr(TITLE_2), Absent, JNum(75), Absent),
     PatchData(Absent, Absent, Absent, JBool(FALSE)),
     PatchData(JStr(TITLE_2), Absent, JStr(<<"a", "b", "c">>), Absent)}
SomeReviewInputs == {ReviewData(JNum(5), Absent), ReviewData(JNum(0), Absent)}
SomeCommissionInputs ==
    {CommissionData(JStr(TITLE_1), Absent, JNum(100)),
     CommissionData(JStr(TITLE_1), Absent, JNum(0))}

(***************************************************************************)
(* The application: requests taken one at a time, each handler atomic      *)
(***************************************************************************)
Next ==
    \/ \E c \in Browser, data \in SomeRegisterInputs :
           Room /\ register(c, data)
    \/ \E c \in Browser, data \in SomeLoginInputs : login(c, data)
    \/ \E c \in Browser : logout(c)
    \/ \E c \in Browser, data \in SomeProfileInputs : edit_profile(c, data)
    \/ \E c \in Browser, data \in SomePostInputs :
           Room /\ Fits(posts) /\ create_post(c, data)
    \/ \E c \in Browser, id \in RequestIds : delete_post(c, id)
    \/ \E c \in Browser, id \in RequestIds, data \in SomePatchInputs :
           update_post(c, id, data)
    \/ \E c \in Browser, id \in RequestIds :
           Room /\ NewId(favorites) <= MaxFavoriteId /\ add_favorite(c, id)
    \/ \E c \in Browser, id \in RequestIds : remove_favorite(c, id)
    \/ \E c \in Browser, id \in RequestIds, data \in SomeReviewInputs :
           Room /\ Fits(reviews) /\ create_review(c, id, data)
    \/ \E c \in Browser, id \in RequestIds :
           Room /\ Fits(orders) /\ create_order(c, id)
    \/ \E c \in Browser, data \in SomeCommissionInputs :
           Room /\ Fits(commissions) /\ create_commission(c, data)
    \/ \E c \in Browser, id \in RequestIds : delete_commission(c, id)

Spec == Init /\ [][Next]_vars

(***************************************************************************)
(* Identity alone: registration with every kind of input, login, logout,   *)
(* profile edits and the seed                                              *)
(***************************************************************************)
IdentityLoginInputs ==
    LoginInputs \cup {LoginData(JStr(DEMO_USERNAME), JStr(DEMO_PASSWORD))}
IdentityRegisterInputs ==
    {RegisterData(JStr(ALICE), JStr(EMAIL_A), JStr(SECRET)),
     RegisterData(JStr(BOB), JStr(EMAIL_B), JStr(SECRET)),
     RegisterData(JStr(BOB), JStr(EMAIL_A), JStr(SECRET)),
     RegisterData(JStr(ALICE), JStr(EMAIL_B), JStr(WRONG)),
     RegisterData(Absent, JStr(EMAIL_A), JStr(SECRET)),
     RegisterData(JStr(ALICE), JStr(EMAIL_A), JNum(123456)),
     RegisterData(JStr(BOB), JStr(DEMO_EMAIL), JStr(SECRET)),
     RegisterData(JStr(DEMO_USERNAME), JStr(EMAIL_B), JStr(SECRET))}

IdentityProfileInputs ==
    {ProfileData(JStr(<<"b">>), JStr(<<"a">>), JBool(TRUE)),
     ProfileData(Null, Absent, JBool(TRUE))}

NextIdentity ==
    \/ \E c \in Browser, data \in IdentityRegisterInputs :
           register(c, data)
    \/ \E c \in Browser, data \in IdentityLoginInputs : login(c, data)
    \/ \E c \in Browser : logout(c)
    \/ \E c \in Browser, data \in IdentityProfileInputs :
           edit_profile(c, data)
    \/ seed_data

SpecIdentity == Init /\ [][NextIdentity]_vars

(***************************************************************************)
(* Favorites: two users, posts that come and go, favorites added and       *)
(* removed                                                                 *)
(***************************************************************************)
TwoUsers == {ALICE_DATA, BOB_DATA}
TwoLogins ==
    {LoginData(JStr(ALICE), JStr(SECRET)), LoginData(JStr(BOB), JStr(SECRET))}

NextSocial ==
    \/ \E c \in Browser, data \in TwoUsers : register(c, data)
    \/ \E c \in Browser, data \in TwoLogins : login(c, data)
    \/ \E c \in Browser : Fits(posts) /\ create_post(c, PRICED_POST)
    \/ \E c \in Browser, id \in RequestIds : delete_post(c, id)
    \/ \E c \in Browser, id \in RequestIds :
           NewId(favorites) <= MaxFavoriteId /\ add_favorite(c, id)
    \/ \E c \in Browser, id \in RequestIds : remove_favorite(c, id)

SpecSocial == Init /\ [][NextSocial]_vars

(***************************************************************************)
(* Posts and commissions: their owners and the other user                  *)
(***************************************************************************)
CatalogPatchInputs ==
    {PatchData(JStr(TITLE_2), JStr(<<"d">>), JNum(75), JBool(FALSE)),
     PatchData(JStr(TITLE_2), JStr(<<"d">>), JStr(<<"a", "b", "c">>), Absent),
     PatchData(JStr(TITLE_2), Absent, JNum(0), Absent),
     PatchData(Absent, JStr(<<"d">>), JNum(0 - 5), JBool(FALSE)),
     PatchData(JStr(TITLE_2), Absent, JNum(1000000), JBool(FALSE)),
     PatchData(JStr(TITLE_2), JStr(<<"d">>), Null, Absent)}

NextCatalog ==
    \/ \E c \in Browser, data \in TwoUsers : register(c, data)
    \/ \E c \in Browser, data \in TwoLogins : login(c, data)
    \/ \E c \in Browser :
           edit_profile(c, ProfileData(Absent, Absent, JBool(TRUE)))
    \/ \E c \in Browser : Fits(posts) /\ create_post(c, PRICED_POST)
    \/ \E c \in Browser, id \in RequestIds, data \in CatalogPatchInputs :
           update_post(c, id, data)
    \/ \E c \in Browser, id \in RequestIds : delete_post(c, id)
    \/ \E c \in Browser :
           /\ Fits(commissions)
           /\ create_commission(
                  c, CommissionData(JStr(TITLE_1), Absent, JNum(100)))
    \/ \E c \in Browser, id \in RequestIds : delete_commission(c, id)

SpecCatalog == Init /\ [][NextCatalog]_vars

(***************************************************************************)
(* Orders: posts created, edited and deleted by their owner, bought by the *)
(* other user                                                              *)
(***************************************************************************)
NextOrders ==
    \/ \E c \in Browser, data \in TwoUsers : register(c, data)
    \/ \E c \in Browser, data \in TwoLogins : login(c, data)
    \/ \E c \in Browser, data \in {PRICED_POST, UNPRICED_POST} :
           Fits(posts) /\ create_post(c, data)
    \/ \E c \in Browser, id \in RequestIds, data \in SomePatchInputs :
           update_post(c, id, data)
    \/ \E c \in Browser, id \in RequestIds : delete_post(c, id)
    \/ \E c \in Browser, id \in RequestIds :
           Fits(orders) /\ create_order(c, id)

SpecOrders == Init /\ [][NextOrders]_vars

(***************************************************************************)
(* Concurrent requests.  The server handles requests in threads, each with *)
(* its own database session; a handler's queries and its commit are        *)
(* separate statements, and SQLite holds no lock between them.  A handler  *)
(* in flight has made its queries and not yet its insert and commit.       *)
(***************************************************************************)
Threads == {"t1", "t2"}
Busy == {r.t : r \in inflight}

\* add_favorite up to the query for an existing favorite (lines 296-300)
add_favorite_begin(t, c, post_id) ==
    /\ t \notin Busy
    /\ IF ~login_required(c)
       THEN Return("add_favorite", 401, "Login required")
       ELSE IF post_id \notin Ids(posts)
       THEN Return("add_favorite", 500, "404 Not Found")
       ELSE LET user == get_current_user(c)
            IN  IF FavoritesOf(user.id, post_id) # {}
                THEN Return("add_favorite", 400, "Already favorited")
                ELSE /\ inflight' = inflight \cup
                            {[t |-> t, op |-> "add_favorite",
                              user_id |-> user.id, post_id |-> post_id]}
                     /\ UNCHANGED <<store, session, resp>>

\* add_favorite from the insert on (lines 301-304)
add_favorite_commit(t) ==
    \E r \in inflight :
        /\ r.t = t /\ r.op = "add_favorite"
        /\ favorites' = InsertFavorite(favorites, r.user_id, r.post_id)
        /\ inflight' = inflight \ {r}
        /\ Reply("add_favorite", 201, 0)
        /\ UNCHANGED <<users, posts, commissions, reviews, orders, session>>

NextConcurrent ==
    \/ \E c \in Clients, data \in TwoUsers : register(c, data)
    \/ \E c \in Clients, data \in TwoLogins : login(c, data)
    \/ \E c \in Clients : Fits(posts) /\ create_post(c, PRICED_POST)
    \/ \E t \in Threads, c \in Clients, id \in RequestIds :
           /\ NewId(favorites) + Cardinality(inflight) <= MaxFavoriteId
           /\ add_favorite_begin(t, c, id)
    \/ \E t \in Threads : add_favorite_commit(t)
    \/ \E c \in Clients, id \in RequestIds : remove_favorite(c, id)

SpecConcurrent == Init /\ [][NextConcurrent]_vars

\* ---------------------------------------------------------------------
\* Properties of favorites (SpecSocial, SpecConcurrent)
\* ---------------------------------------------------------------------

AtMostOneFavorite ==
    \A f, g \in favorites :
        (f.user_id = g.user_id /\ f.post_id = g.post_id) => f = g

\* C1: with requests served one after another, a user never holds two
\* favorites of the same post: add_favorite of an existing post answers 201
\* and stores exactly one new favorite of (user, post) when the user has
\* none, answers 400 "Already favorited" and changes nothing when the user
\* has one, and after a remove_favorite that answers 200 the user has no
\* favorite of the post.
C1_FavoriteUniqueness ==
    /\ []AtMostOneFavorite
    /\ [][\A c \in Browser, p \in RequestIds :
            (login_required(c) /\ p \in Ids(posts)) =>
              /\ add_favorite(c, p) =>
                   IF FavoritesOf(session[c], p) = {}
                   THEN /\ resp'.code = 201
                        /\ \E f \in favorites' :
                              /\ f \notin favorites
                              /\ f.user_id = session[c]
                              /\ f.post_id = p
                              /\ favorites' = favorites \cup {f}
                        /\ UNCHANGED <<users, posts, commissions, reviews,
                                       orders>>
                   ELSE /\ resp'.code = 400
                        /\ resp'.error = "Already favorited"
                        /\ UNCHANGED store
              /\ (remove_favorite(c, p) /\ resp'.code = 200) =>
                   {f \in favorites' :
                       f.user_id = session[c] /\ f.post_id = p} = {}
       ]_vars

\* a second add_favorite of a post already favorited has been refused while
\* the favorite is stored
C1_Witness ==
    /\ resp.op = "add_favorite"
    /\ resp.code = 400
    /\ \E f \in favorites : f.user_id = session["c1"]

\* C2: when add_favorite requests of the same user and post are served
\* concurrently, at most one favorite of (user, post) is ever stored, and a
\* request that reaches its insert after another one stored the favorite
\* answers 400 and stores nothing.
C2_ConcurrentFavoriteUniqueness ==
    /\ [](\A u \in users, p \in RequestIds :
              Cardinality(FavoritesOf(u.id, p)) <= 1)
    /\ [][\A t \in Threads :
            (/\ \E r \in inflight :
                   /\ r.t = t
                   /\ FavoritesOf(r.user_id, r.post_id) # {}
             /\ add_favorite_commit(t))
            => (resp'.code = 400 /\ favorites' = favorites)
       ]_vars

\* ---------------------------------------------------------------------
\* Properties of accounts (SpecIdentity)
\* ---------------------------------------------------------------------

UniqueUsers ==
    \A u, v \in users :
        (u.username = v.username \/ u.email = v.email) => u = v

\* C3: no two users share a username or an email, and a register whose
\* three fields are strings and whose username or email is already stored
\* answers 400, stores no user and leaves the session alone.
C3_UserUniqueness ==
    /\ []UniqueUsers
    /\ [][\A c \in Browser, data \in IdentityRegisterInputs :
            (/\ IsStr(data.username) /\ IsStr(data.email)
             /\ IsStr(data.password)
             /\ \E u \in users : \/ u.username = data.username.s
                                 \/ u.email = data.email.s
             /\ register(c, data))
            => /\ resp'.code = 400
               /\ users' = users
               /\ session' = session
       ]_vars

\* a register with a fresh username and a stored email has been refused
C3_Witness ==
    /\ resp.op = "register"
    /\ resp.error = "Email already registered"
    /\ users # {}

\* C4: a register that answers 201 stores a user with the given username
\* whose stored hash verifies the given password, and signs the client in as
\* that user; no later step changes or removes a user's id, username or
\* password hash; a login with non-empty string fields answers 200 and signs
\* the client in as the user when the username is stored and the password
\* verifies against its hash, and answers 401 and leaves the session alone
\* otherwise.
C4_CredentialsRoundTrip ==
    /\ [][\A c \in Browser, data \in IdentityRegisterInputs :
            (register(c, data) /\ resp'.code = 201) =>
              \E u \in users' \ users :
                  /\ session'[c] = u.id
                  /\ u.username = data.username.s
                  /\ check_password_hash(u.password, data.password.s)
       ]_vars
    /\ [][\A u \in users : \E v \in users' :
              /\ v.id = u.id
              /\ v.username = u.username
              /\ v.password = u.password
       ]_vars
    /\ [][\A c \in Browser, data \in IdentityLoginInputs :
            (/\ IsStr(data.username) /\ data.username.s # <<>>
             /\ IsStr(data.password) /\ data.password.s # <<>>
             /\ login(c, data))
            => IF \E u \in users :
                     /\ u.username = data.username.s
                     /\ check_password_hash(u.password, data.password.s)
               THEN /\ resp'.code = 200
                    /\ \E u \in users :
                          /\ u.username = data.username.s
                          /\ session'[c] = u.id
               ELSE /\ resp'.code = 401
                    /\ session' = session
       ]_vars

\* a login has succeeded after another user registered and a profile was
\* edited
C4_Witness ==
    /\ resp.op = "login"
    /\ resp.code = 200
    /\ \E u, v \in users :
          /\ u.id = session["c1"]
          /\ v.id # u.id
          /\ v.username = ALICE
          /\ u.is_artist

\* ---------------------------------------------------------------------
\* Properties of the guards (Spec, SpecCatalog)
\* ---------------------------------------------------------------------

GuardedOps ==
    {"edit_profile", "create_post", "delete_post", "update_post",
     "add_favorite", "remove_favorite", "create_review", "create_order",
     "create_commission", "delete_commission"}

\* C5: every request of a handler behind login_required made without a
\* signed-in user answers 401 "Login required" and changes neither the
\* tables nor the session.
C5_LoginRequired ==
    [][\A c \in Browser :
          (session[c] = NoUser /\ resp'.op \in GuardedOps) =>
             /\ resp' = Response(resp'.op, 401, "Login required", 0)
             /\ UNCHANGED <<store, session>>
      ]_vars

\* a delete_post of a stored post by a signed-out client has been refused
C5_Witness ==
    /\ resp.op = "delete_post"
    /\ resp.code = 401
    /\ session["c1"] = NoUser
    /\ posts # {}

\* C6: update_post and delete_post of a post of another user, and
\* delete_commission of a commission of another artist, answer 403 and
\* change nothing; a post or a commission only disappears in a step of its
\* signed-in owner.
C6_OwnerOnly ==
    /\ [][\A c \in Browser, id \in RequestIds, data \in CatalogPatchInputs :
            login_required(c) =>
              /\ (/\ id \in Ids(posts)
                  /\ Row(posts, id).user_id # session[c]
                  /\ (update_post(c, id, data) \/ delete_post(c, id)))
                 => (resp'.code = 403 /\ UNCHANGED <<store, session>>)
              /\ (/\ id \in Ids(commissions)
                  /\ Row(commissions, id).artist_id # session[c]
                  /\ delete_commission(c, id))
                 => (resp'.code = 403 /\ UNCHANGED <<store, session>>)
       ]_vars
    /\ [][/\ \A p \in posts :
               (\A q \in posts' : q.id = p.id => q # p) =>
                   \E c \in Browser : session[c] = p.user_id
          /\ \A k \in commissions \ commissions' :
               \E c \in Browser : session[c] = k.artist_id
       ]_vars

\* an update_post of a post of another user has been refused
C6_Witness ==
    /\ resp.op = "update_post"
    /\ resp.code = 403
    /\ \E p \in posts : p.user_id # session["c1"]

\* C7: delete_post, update_post, add_favorite and create_order of a signed-in
\* user on a post id that is not stored, delete_commission on a commission
\* id that is not stored, and remove_favorite when the user has no favorite
\* of the post, answer 404 and change nothing.
C7_MissingRowIs404 ==
    [][\A c \in Browser, id \in RequestIds :
          login_required(c) =>
            /\ (/\ id \notin Ids(posts)
                /\ \/ delete_post(c, id)
                   \/ add_favorite(c, id)
                   \/ create_order(c, id)
                   \/ \E data \in SomePatchInputs : update_post(c, id, data))
               => (resp'.code = 404 /\ UNCHANGED <<store, session>>)
            /\ (FavoritesOf(session[c], id) = {} /\ remove_favorite(c, id))
               => (resp'.code = 404 /\ UNCHANGED <<store, session>>)
            /\ (id \notin Ids(commissions) /\ delete_commission(c, id))
               => (resp'.code = 404 /\ UNCHANGED <<store, session>>)
      ]_vars

\* ---------------------------------------------------------------------
\* Properties of orders (SpecOrders)
\* ---------------------------------------------------------------------

\* C8: create_order of a post that is not for sale or that the buyer owns
\* answers 400 and stores no order, so no stored order has a buyer who owns
\* the post the order names.
C8_NoSelfPurchase ==
    /\ [][\A c \in Browser, id \in RequestIds :
            (/\ login_required(c)
             /\ id \in Ids(posts)
             /\ \/ ~Row(posts, id).is_for_sale
                \/ Row(posts, id).user_id = session[c]
             /\ create_order(c, id))
            => (resp'.code = 400 /\ UNCHANGED <<store, session>>)
       ]_vars
    /\ [](\A o \in orders : \A p \in posts :
              p.id = o.post_id => o.buyer_id # p.user_id)

\* C9: create_order of a for-sale post of another user answers 201 and
\* stores one pending order of the buyer for the post at the price the post
\* has, whatever that price is.
C9_OrderSnapshotsPrice ==
    [][\A c \in Browser, id \in RequestIds :
          (/\ login_required(c)
           /\ id \in Ids(posts)
           /\ Row(posts, id).is_for_sale
           /\ Row(posts, id).user_id # session[c]
           /\ create_order(c, id))
          => /\ resp'.code = 201
             /\ \E o \in orders' \ orders :
                   /\ orders' = orders \cup {o}
                   /\ o.buyer_id = session[c]
                   /\ o.post_id = id
                   /\ o.price = Row(posts, id).price
                   /\ o.status = "pending"
      ]_vars

\* ---------------------------------------------------------------------
\* Properties of update_post (SpecCatalog)
\* ---------------------------------------------------------------------

\* the prices the handler is to refuse: null, a string that is no number, a
\* number that is not positive, a number above MAX_PRICE
InvalidPrice(v) ==
    \/ v.k = "null"
    \/ v.k = "str" /\ \E i \in 1..Len(v.s) : v.s[i] \in Letters
    \/ v.k = "num" /\ (v.n <= 0 \/ v.n > MAX_PRICE * 10)

\* C10: an update_post by the owner whose price is invalid answers 400
\* "Invalid price" and leaves the post as it was, its title and description
\* included, whatever title and description the request carries.
C10_InvalidPriceChangesNothing ==
    [][\A c \in Browser, id \in RequestIds, data \in CatalogPatchInputs :
          (/\ login_required(c)
           /\ id \in Ids(posts)
           /\ Row(posts, id).user_id = session[c]
           /\ InvalidPrice(data.price)
           /\ update_post(c, id, data))
          => /\ resp'.code = 400
             /\ resp'.error = "Invalid price"
             /\ UNCHANGED <<store, session>>
      ]_vars

\* an update_post of the owner with an invalid price has been refused
C10_Witness ==
    /\ resp.op = "update_post"
    /\ resp.error = "Invalid price"
    /\ \E p \in posts : p.user_id = session["c1"]

\* ---------------------------------------------------------------------
\* Prices of posts and commissions (SpecPrices)
\* ---------------------------------------------------------------------

\* request bodies of create_post, update_post and create_commission with
\* the prices at and around the limits of validate_price
PricePostInputs ==
    {PRICED_POST,
     UNPRICED_POST,
     PostData(JStr(TITLE_1), Absent, JStr(IMAGE_1), JNum(MAX_PRICE),
              JBool(TRUE)),
     PostData(JStr(TITLE_1), Absent, JStr(IMAGE_1), JNum(MAX_PRICE + 1),
              JBool(TRUE)),
     PostData(JStr(TITLE_1), Absent, JStr(IMAGE_1), JNum(0), JBool(TRUE)),
     PostData(JStr(TITLE_1), Absent, JStr(IMAGE_1), JNum(0 - 5), JBool(TRUE)),
     PostData(JStr(TITLE_1), Absent, JStr(IMAGE_1), JStr(<<"a", "b", "c">>),
              JBool(TRUE)),
     PostData(Absent, Absent, JStr(IMAGE_1), JNum(50), JBool(TRUE)),
     PostData(JStr(TITLE_1), Absent, Absent, JNum(50), JBool(TRUE)),
     PostData(JStr(Rep("t", 201)), Absent, JStr(IMAGE_1), Absent,
              JBool(TRUE))}

PricePatchInputs ==
    {PatchData(Absent, Absent, JNum(MAX_PRICE), Absent),
     PatchData(Absent, Absent, JNum(MAX_PRICE + 1), Absent),
     PatchData(Absent, Absent, JNum(0), Absent),
     PatchData(Absent, Absent, JNum(0 - 5), Absent),
     PatchData(Absent, Absent, JStr(<<"a", "b", "c">>), Absent),
     PatchData(Absent, Absent, JBool(TRUE), Absent),
     PatchData(Absent, Absent, Null, Absent)}

PriceCommissionInputs ==
    {CommissionData(JStr(TITLE_1), Absent, JNum(MAX_PRICE)),
     CommissionData(JStr(TITLE_1), Absent, JNum(MAX_PRICE + 1)),
     CommissionData(JStr(TITLE_1), Absent, JNum(0)),
     CommissionData(JStr(TITLE_1), Absent, JNum(0 - 5)),
     CommissionData(JStr(TITLE_1), Absent, JStr(<<"a", "b", "c">>)),
     CommissionData(JStr(TITLE_1), Absent, Absent),
     CommissionData(Absent, Absent, JNum(MAX_PRICE))}

NextPrices ==
    \/ \E c \in Browser : register(c, ALICE_DATA)
    \/ \E c \in Browser, data \in SomeProfileInputs : edit_profile(c, data)
    \/ \E c \in Browser, data \in PricePostInputs :
           Fits(posts) /\ create_post(c, data)
    \/ \E c \in Browser, id \in RequestIds, data \in PricePatchInputs :
           update_post(c, id, data)
    \/ \E c \in Browser, id \in RequestIds : delete_post(c, id)
    \/ \E c \in Browser, data \in PriceCommissionInputs :
           Fits(commissions) /\ create_commission(c, data)
    \/ \E c \in Browser, id \in RequestIds : delete_commission(c, id)
    \/ seed_data

SpecPrices == Init /\ [][NextPrices]_vars

\* the requests create_post is to refuse: no title, no image, a title of
\* more than 200 characters, a price that is present and outside
\* (0, MAX_PRICE]
PostRefused(data) ==
    \/ ~Truthy(Get(data.title))
    \/ ~Truthy(Get(data.image_url))
    \/ Len(data.title.s) > 200
    \/ /\ data.price.k # "absent"
       /\ ~(data.price.k = "num" /\ data.price.n > 0
            /\ data.price.n <= MAX_PRICE * 10)

\* C11: create_post of a signed-in user answers 400 and stores no post when
\* the title or the image is missing, the title has more than 200
\* characters or a price is present and outside (0, MAX_PRICE], a price of 0
\* included; otherwise it answers 201 with the id of the one new post, owned
\* by the user, whose price is null when the request gave none.
C11_CreatePostValidation ==
    [][\A c \in Browser, data \in PricePostInputs :
          (/\ login_required(c)
           /\ data.description.k \in {"absent", "str"}
           /\ create_post(c, data))
          => IF PostRefused(data)
             THEN resp'.code = 400 /\ UNCHANGED <<store, session>>
             ELSE /\ resp'.code = 201
                  /\ \E p \in posts' \ posts :
                        /\ posts' = posts \cup {p}
                        /\ p.id = resp'.id
                        /\ p.user_id = session[c]
                        /\ (data.price.k = "absent" => p.price = None)
      ]_vars

\* the requests create_commission is to refuse to an artist: no title, or a
\* price that is missing or outside (0, MAX_PRICE]
CommissionRefused(data) ==
    \/ ~Truthy(Get(data.title))
    \/ ~(data.price.k = "num" /\ data.price.n > 0
         /\ data.price.n <= MAX_PRICE * 10)

\* C12: create_commission of a user whose is_artist flag is false answers
\* 403 and stores nothing, whatever the title and the price; of an artist
\* with no title or a price outside (0, MAX_PRICE] it answers 400 and stores
\* nothing; it answers 201 only to an artist, and every commission stored
\* has the artist_id of the requesting user, who is an artist at that
\* moment.
C12_OnlyArtistsCreateCommissions ==
    /\ [][\A c \in Browser, data \in PriceCommissionInputs :
            (login_required(c) /\ create_commission(c, data)) =>
               /\ ~get_current_user(c).is_artist =>
                     (resp'.code = 403 /\ UNCHANGED <<store, session>>)
               /\ (get_current_user(c).is_artist /\ CommissionRefused(data))
                     => (resp'.code = 400 /\ UNCHANGED <<store, session>>)
               /\ resp'.code = 201 => get_current_user(c).is_artist
       ]_vars
    /\ [][\A k \in commissions' \ commissions :
            \E c \in Browser, u \in users :
               u.id = session[c] /\ u.id = k.artist_id /\ u.is_artist
       ]_vars

\* a signed-in user who is no artist has been refused
C12_Witness ==
    /\ resp.op = "create_commission"
    /\ resp.code = 403
    /\ \E u \in users : u.id = session["c1"] /\ ~u.is_artist

\* ---------------------------------------------------------------------
\* Reviews (SpecRatings, SpecReviews)
\* ---------------------------------------------------------------------

\* the highest rowid a review reaches
MaxReviewId == 2

\* the ratings a request may carry: none, null, the integers 0 to 6, the
\* number 3.5 and the string 'abc'
RatingCandidates ==
    {Absent, Null} \cup {JNum(i) : i \in 0..6}
    \cup {JDec(3, 5), JStr(<<"a", "b", "c">>)}

ReviewCandidates == {ReviewData(r, Absent) : r \in RatingCandidates}

\* one user rates with every candidate
NextRatings ==
    \/ \E c \in Browser : register(c, ALICE_DATA)
    \/ \E c \in Browser : logout(c)
    \/ \E c \in Browser, id \in RequestIds, data \in ReviewCandidates :
           NewId(reviews) <= MaxReviewId /\ create_review(c, id, data)

SpecRatings == Init /\ [][NextRatings]_vars

\* two users review posts that are stored, deleted or were never created
NextReviews ==
    \/ \E c \in Browser, data \in TwoUsers : register(c, data)
    \/ \E c \in Browser, data \in TwoLogins : login(c, data)
    \/ \E c \in Browser : Fits(posts) /\ create_post(c, PRICED_POST)
    \/ \E c \in Browser, id \in RequestIds : delete_post(c, id)
    \/ \E c \in Browser, id \in RequestIds, data \in SomeReviewInputs :
           NewId(reviews) <= MaxReviewId /\ create_review(c, id, data)

SpecReviews == Init /\ [][NextReviews]_vars

\* the integers 1 to 5
IntegerRating(v) ==
    /\ v.k = "num"
    /\ v.n \in {10 * i : i \in MIN_RATING..MAX_RATING}

\* C13: for every rating among none, null, 0, 1, 2, 3, 4, 5, 6, 3.5 and
\* 'abc', create_review of a signed-in user answers 201 and stores one
\* review with that rating if and only if the rating is one of the integers
\* 1 to 5, and otherwise answers 400 and stores no review.
C13_RatingValidation ==
    [][\A c \in Browser, id \in RequestIds, data \in ReviewCandidates :
          (login_required(c) /\ create_review(c, id, data)) =>
             IF IntegerRating(data.rating)
             THEN /\ resp'.code = 201
                  /\ \E r \in reviews' \ reviews :
                        /\ reviews' = reviews \cup {r}
                        /\ r.rating * 10 = data.rating.n
             ELSE /\ resp'.code = 400
                  /\ UNCHANGED <<store, session>>
      ]_vars

\* C17: create_review of a signed-in user with an integer rating from 1 to
\* 5 answers 201 and stores one new review of (user, post) in every state:
\* when no post has the id, when the user owns the post and when the user
\* has reviewed the post before.
C17_ReviewsUnconditional ==
    [][\A c \in Browser, id \in RequestIds, data \in SomeReviewInputs :
          (/\ login_required(c)
           /\ IntegerRating(data.rating)
           /\ create_review(c, id, data))
          => /\ resp'.code = 201
             /\ \E r \in reviews' \ reviews :
                   /\ reviews' = reviews \cup {r}
                   /\ r.user_id = session[c]
                   /\ r.post_id = id
                   /\ r.rating * 10 = data.rating.n
             /\ UNCHANGED <<users, posts, commissions, favorites, orders,
                            session>>
      ]_vars

\* a user has reviewed twice a post that is not stored
C17_Witness ==
    \E r, q \in reviews :
        /\ r.id # q.id
        /\ r.user_id = q.user_id
        /\ r.post_id = q.post_id
        /\ r.post_id \notin Ids(posts)

\* ---------------------------------------------------------------------
\* The session (Spec)
\* ---------------------------------------------------------------------

\* C14: logout can be requested in every state, signed in or not; it
\* answers with the redirect, leaves the client with no user and changes no
\* table; from then on the client stays without a user until a register
\* that answers 201 or a login that answers 200, and until then every
\* guarded request answers 401.
C14_Logout ==
    /\ [](\A c \in Browser : ENABLED logout(c))
    /\ [][\A c \in Browser :
            logout(c) => /\ session'[c] = NoUser
                         /\ resp'.code = 302
                         /\ UNCHANGED store
       ]_vars
    /\ [][\A c \in Browser :
            (session[c] = NoUser /\ session'[c] # NoUser) =>
               \/ resp'.op = "register" /\ resp'.code = 201
               \/ resp'.op = "login" /\ resp'.code = 200
       ]_vars
    /\ [][\A c \in Browser :
            (session[c] = NoUser /\ resp'.op \in GuardedOps) =>
               (resp'.code = 401 /\ session'[c] = NoUser)
       ]_vars

\* a user who stored a post has logged out
C14_Witness ==
    /\ resp.op = "logout"
    /\ session["c1"] = NoUser
    /\ \E p \in posts : \E u \in users : u.id = p.user_id

\* ---------------------------------------------------------------------
\* Orders after their creation (SpecOrderHistory)
\* ---------------------------------------------------------------------

\* the highest rowid an order reaches
MaxOrderId == 2

\* the owner raises the price and takes the post off sale
REPRICE_AND_WITHDRAW == PatchData(Absent, Absent, JNum(75), JBool(FALSE))

NextOrderHistory ==
    \/ \E c \in Browser, data \in TwoUsers : register(c, data)
    \/ \E c \in Browser, data \in TwoLogins : login(c, data)
    \/ \E c \in Browser :
           edit_profile(c, ProfileData(Absent, Absent, JBool(TRUE)))
    \/ \E c \in Browser : Fits(posts) /\ create_post(c, PRICED_POST)
    \/ \E c \in Browser, id \in RequestIds :
           update_post(c, id, REPRICE_AND_WITHDRAW)
    \/ \E c \in Browser, id \in RequestIds : delete_post(c, id)
    \/ \E c \in Browser, id \in RequestIds :
           NewId(orders) <= MaxOrderId /\ create_order(c, id)

SpecOrderHistory == Init /\ [][NextOrderHistory]_vars

\* C15: an order is stored as pending with the price its post has at that
\* moment, and no later request (update_post of the price or of
\* is_for_sale, delete_post, another create_order, edit_profile) changes or
\* removes the order: its buyer, post, price and status stay as stored.
C15_OrdersImmutable ==
    /\ [][\A o \in orders : o \in orders']_vars
    /\ [][\A o \in orders' \ orders :
            /\ o.status = "pending"
            /\ \E p \in posts : p.id = o.post_id /\ o.price = p.price
       ]_vars
    /\ [](\A o \in orders : o.status = "pending")

\* the post of an order has been repriced and the order keeps the price
\* it was made at
C15_Witness ==
    \E o \in orders : \E p \in posts :
        /\ p.id = o.post_id
        /\ p.user_id # o.buyer_id
        /\ o.price = Float(500)
        /\ p.price = Float(750)

\* ---------------------------------------------------------------------
\* Rows that reference a post (SpecSocial)
\* ---------------------------------------------------------------------

\* C16: in every reachable state every favorite and every order references
\* a post that is stored: delete_post removes the rows that reference the
\* post or is refused while there are such rows.
C16_NoDanglingDependants ==
    /\ \A f \in favorites : f.post_id \in Ids(posts)
    /\ \A o \in orders : o.post_id \in Ids(posts)

\* C18: the user of a client's session changes only in a register that
\* answers 201, a login that answers 200 and a logout; every other request,
\* a refused register and a refused login included, leaves it as it was;
\* and the user of a session is always a stored user.
C18_SessionFrame ==
    /\ [][\A c \in Browser :
            session'[c] # session[c] =>
               \/ resp'.op = "register" /\ resp'.code = 201
               \/ resp'.op = "login" /\ resp'.code = 200
               \/ resp'.op = "logout"
       ]_vars
    /\ [](\A c \in Browser :
             session[c] # NoUser => \E u \in users : u.id = session[c])

\* a login with a wrong password has been refused to a client that was
\* signed in, and the client is still signed in
C18_Witness ==
    /\ resp.op = "login"
    /\ resp.code = 401
    /\ session["c1"] # NoUser

\* a stored price within (0, MAX_PRICE], in tenths
InRange(n) == 0 < n /\ n <= MAX_PRICE * 10

\* C19: every stored post has a price that is null or within
\* (0, MAX_PRICE], every stored commission a price within (0, MAX_PRICE],
\* the seeded rows included; and a request whose price is 0, negative, above
\* MAX_PRICE or no number never puts a price into a row: create_post stores
\* no post or a post with no price, update_post and create_commission store
\* nothing.
C19_StoredPricesInRange ==
    /\ [](/\ \A p \in posts : p.price = None \/ InRange(p.price.n)
          /\ \A k \in commissions : InRange(k.price))
    /\ [][\A c \in Browser :
            login_required(c) =>
              /\ \A data \in PricePostInputs :
                    (InvalidPrice(data.price) /\ create_post(c, data)) =>
                       /\ posts \subseteq posts'
                       /\ \A p \in posts' \ posts : p.price = None
              /\ \A id \in RequestIds, data \in PricePatchInputs :
                    (InvalidPrice(data.price) /\ update_post(c, id, data))
                       => posts' = posts
              /\ \A data \in PriceCommissionInputs :
                    (InvalidPrice(data.price) /\ create_commission(c, data))
                       => commissions' = commissions
       ]_vars

\* the seeded posts are stored and an artist has been refused a commission
C19_Witness ==
    /\ resp.op = "create_commission"
    /\ resp.code = 400
    /\ \E u \in users : u.id = session["c1"] /\ u.is_artist
    /\ \E p \in posts : p.price = Float(2500)

\* ---------------------------------------------------------------------
\* create_order served while the owner changes the post (SpecOrderRace)
\* ---------------------------------------------------------------------

\* create_order up to its checks (lines 350-355): the post is loaded and
\* found eligible; its price is the one read now
create_order_begin(t, c, post_id) ==
    /\ t \notin Busy
    /\ IF ~login_required(c)
       THEN Return("create_order", 401, "Login required")
       ELSE IF post_id \notin Ids(posts)
       THEN Return("create_order", 500, "404 Not Found")
       ELSE LET user == get_current_user(c)
                post == Row(posts, post_id)
            IN  IF ~post.is_for_sale
                THEN Return("create_order", 400, "Post not for sale")
                ELSE IF post.user_id = user.id
                THEN Return("create_order", 400, "Cannot buy own post")
                ELSE /\ inflight' = inflight \cup
                                      {[t |-> t, op |-> "create_order",
                                        user_id |-> user.id,
                                        post_id |-> post_id,
                                        price |-> post.price]}
                     /\ UNCHANGED <<store, session, resp>>

\* create_order from the insert on (lines 356-359): no lock was held since
\* the post was read, and the insert does not look at the post again
create_order_commit(t) ==
    \E r \in inflight :
        /\ r.t = t
        /\ r.op = "create_order"
        /\ inflight' = inflight \ {r}
        /\ IF r.price = None
           THEN /\ resp' = Response("create_order", 500, "IntegrityError", 0)
                /\ UNCHANGED <<store, session>>
           ELSE LET order == [id |-> NewId(orders), buyer_id |-> r.user_id,
                              post_id |-> r.post_id, price |-> r.price,
                              status |-> "pending"]
                IN  /\ orders' = orders \cup {order}
                    /\ Reply("create_order", 201, order.id)
                    /\ UNCHANGED <<users, posts, commissions, reviews,
                                   favorites, session>>

RacePatchInputs ==
    {PatchData(Absent, Absent, JNum(75), Absent),
     PatchData(Absent, Absent, Absent, JBool(FALSE))}

NextOrderRace ==
    \/ \E c \in Clients, data \in TwoUsers : register(c, data)
    \/ \E c \in Clients, data \in TwoLogins : login(c, data)
    \/ \E c \in Clients : Fits(posts) /\ create_post(c, PRICED_POST)
    \/ \E c \in Clients, id \in RequestIds, data \in RacePatchInputs :
           update_post(c, id, data)
    \/ \E c \in Clients, id \in RequestIds : delete_post(c, id)
    \/ \E t \in Threads, c \in Clients, id \in RequestIds :
           /\ NewId(orders) + Cardinality(inflight) <= MaxId
           /\ create_order_begin(t, c, id)
    \/ \E t \in Threads : create_order_commit(t)

SpecOrderRace == Init /\ [][NextOrderRace]_vars

\* C20: when create_order is served while the owner's update_post or
\* delete_post of the same post commits between the buyer's checks and the
\* buyer's insert, every order stored names a post that is stored and for
\* sale at the moment of the insert and carries the price the post has at
\* that moment.
C20_OrderMatchesPostAtCommit ==
    [][\A o \in orders' \ orders :
          \E p \in posts' :
             /\ p.id = o.post_id
             /\ p.is_for_sale
             /\ o.price = p.price
      ]_vars

\* ---------------------------------------------------------------------
\* register served concurrently (SpecRegisterRace)
\* ---------------------------------------------------------------------

\* register up to its queries (lines 179-191): the body is validated and
\* neither the username nor the email is found
register_begin(t, c, data) ==
    LET username == Get(data.username)
        email == Get(data.email)
        password == Get(data.password)
    IN  /\ t \notin Busy
        /\ IF ~Truthy(username) \/ ~Truthy(email) \/ ~Truthy(password)
           THEN Return("register", 400, "Missing required fields")
           ELSE IF ~IsStr(username) THEN Return("register", 500, "TypeError")
           ELSE IF Len(username.s) < 3 \/ Len(username.s) > 80
           THEN Return("register", 400, "Username must be 3-80 characters")
           ELSE IF ~IsStr(email) THEN Return("register", 500, "TypeError")
           ELSE IF ~validate_email(email.s)
           THEN Return("register", 400, "Invalid email format")
           ELSE IF ~IsStr(password) THEN Return("register", 500, "TypeError")
           ELSE IF Len(password.s) < 6
           THEN Return("register", 400,
                       "Password must be at least 6 characters")
           ELSE IF \E u \in users : u.username = username.s
           THEN Return("register", 400, "Username already exists")
           ELSE IF \E u \in users : u.email = email.s
           THEN Return("register", 400, "Email already registered")
           ELSE /\ inflight' = inflight \cup
                                 {[t |-> t, op |-> "register", c |-> c,
                                   username |-> username.s,
                                   email |-> email.s,
                                   password |-> password.s]}
                /\ UNCHANGED <<store, session, resp>>

\* register_commit as it would be if User.username and User.email were not
\* declared unique
register_commit_without_unique_constraint(t) ==
    \E r \in inflight :
        /\ r.t = t
        /\ r.op = "register"
        /\ inflight' = inflight \ {r}
        /\ LET user == [id |-> NewId(users), username |-> r.username,
                        email |-> r.email,
                        password |-> generate_password_hash(r.password),
                        bio |-> None, avatar_url |-> None,
                        is_artist |-> FALSE]
           IN  /\ users' = users \cup {user}
               /\ session' = [session EXCEPT ![r.c] = user.id]
               /\ Reply("register", 201, 0)
               /\ UNCHANGED <<posts, commissions, reviews, favorites,
                              orders>>

\* register from the insert on (lines 192-199): the commit fails on the
\* unique constraints of User when another request stored the username or
\* the email meanwhile; the session is bound after the commit
register_commit(t) ==
    \E r \in inflight :
        /\ r.t = t
        /\ r.op = "register"
        /\ inflight' = inflight \ {r}
        /\ LET user == [id |-> NewId(users), username |-> r.username,
                        email |-> r.email,
                        password |-> generate_password_hash(r.password),
                        bio |-> None, avatar_url |-> None,
                        is_artist |-> FALSE]
           IN  IF ~UserUniqueOk(users, user)
               THEN /\ resp' = Response("register", 500, "IntegrityError", 0)
                    /\ UNCHANGED <<store, session>>
               ELSE /\ users' = users \cup {user}
                    /\ session' = [session EXCEPT ![r.c] = user.id]
                    /\ Reply("register", 201, 0)
                    /\ UNCHANGED <<posts, commissions, reviews, favorites,
                                   orders>>

\* alice and bob, and requests that share the username or the email of one
\* of them
RaceRegisterInputs ==
    {ALICE_DATA, BOB_DATA,
     RegisterData(JStr(BOB), JStr(EMAIL_A), JStr(SECRET)),
     RegisterData(JStr(ALICE), JStr(EMAIL_B), JStr(WRONG))}

NextRegisterRace ==
    \/ \E t \in Threads, c \in Clients, data \in RaceRegisterInputs :
           register_begin(t, c, data)
    \/ \E t \in Threads : register_commit(t)
    \/ \E c \in Clients : logout(c)

SpecRegisterRace == Init /\ [][NextRegisterRace]_vars

\* the request in flight on thread t carries a username or an email that a
\* stored user has by now
Loses(t) ==
    \E r \in inflight :
        /\ r.t = t
        /\ \E u \in users : u.username = r.username \/ u.email = r.email

\* C21: when register requests with the same username or the same email
\* are served concurrently and all pass the queries before any commits, no
\* two users are ever stored with that username or that email; the request
\* that commits second stores no user, answers with an error and not 201,
\* and leaves every session as it was; the request that commits first
\* answers 201 and binds its client's session to the user it stored.
C21_ConcurrentRegisterUniqueness ==
    /\ [](\A u, v \in users :
             (u.username = v.username \/ u.email = v.email) => u.id = v.id)
    /\ [](\A u, v \in users : u.id = v.id => u = v)
    /\ [][\A t \in Threads :
            (Loses(t) /\ register_commit(t)) =>
               /\ users' = users
               /\ resp'.code >= 400
               /\ session' = session
       ]_vars
    /\ [][\A t \in Threads :
            (~Loses(t) /\ register_commit(t)) =>
               /\ resp'.code = 201
               /\ \E u \in users' \ users, r \in inflight :
                     /\ r.t = t
                     /\ users' = users \cup {u}
                     /\ u.username = r.username
                     /\ session' = [session EXCEPT ![r.c] = u.id]
       ]_vars

\* a request that passed the queries has lost the race: it was answered
\* with the error of the constraint while its client has no user
C21_Witness ==
    /\ resp.op = "register"
    /\ resp.code = 500
    /\ resp.error = "IntegrityError"
    /\ users # {}
    /\ \E c \in Clients : session[c] = NoUser

====
